---- MODULE Spec2Model ----
(***************************************************************************)
(* Model of plai-actions (src/src/index.ts): one run of the script that    *)
(* loads the environment, fetches standings and fixtures, formats them     *)
(* into a prompt, asks the generative AI for predictions and writes the    *)
(* returned text to ./output/data.json.                                    *)
(*                                                                         *)
(* Conventions.  A JavaScript string whose characters matter (team names,  *)
(* the fixture block) is a sequence of one-character strings, so that      *)
(* joining and splitting on "\n" are computed.  A value that may be the    *)
(* JavaScript undefined is a record [defined, v] (arrays) or the string    *)
(* Undefined (strings).  An HTTP response is a record whose ok field says  *)
(* whether axios resolved (2xx) or rejected (transport / non-2xx).         *)
(***************************************************************************)
EXTENDS Integers, Sequences, FiniteSets, TLC

VARIABLES
    env,                \* process.env after dotenv.config()
    pc,                 \* position of the run
    inflight,           \* requests issued and not yet answered
    issued,             \* number of times each request was issued
    standingsResp,      \* response received from the standings endpoint
    fixturesResp,       \* response received from the matches endpoint
    aiResp,             \* response received from the AI endpoint
    standings,          \* main: const standings
    fixtures,           \* main: const fixtures
    warned,             \* getFixtures: console.warn was called
    formattedStandings, \* main: const formattedStandings
    formattedFixtures,  \* main: const formattedFixtures
    prompt,             \* main: const prompt
    predictions,        \* main: const predictions
    dirExists,          \* ./output exists
    file,               \* contents of ./output/data.json (Absent if none)
    disk0,              \* directory and file when the process started
    error,              \* the error that ended the run
    failedAt,           \* the function that threw it
    exitCode,           \* process exit code, NotExited while running
    fmtArgFixtures,     \* argument of a direct formatFixtures call
    fmtArgStandings,    \* argument of a direct formatStandingsTable call
    fmtRetFixtures,     \* its result
    fmtRetStandings,    \* its result
    fmtCalled           \* which of the two formatters have been called

runVars == <<env, pc, inflight, issued, standingsResp, fixturesResp, aiResp,
             standings, fixtures, warned, formattedStandings,
             formattedFixtures, prompt, predictions, dirExists, file, disk0,
             error, failedAt, exitCode>>

fmtVars == <<fmtArgFixtures, fmtArgStandings, fmtRetFixtures,
             fmtRetStandings, fmtCalled>>

vars == <<runVars, fmtVars>>

----------------------------------------------------------------------------
(* Bounds *)

MaxFixtures == 3

MaxStandings == 2

----------------------------------------------------------------------------
(* Values *)

Undefined == "<undefined>"

Absent == "<absent>"

NotExited == 0 - 1

NoError == "none"

Some(a) == [defined |-> TRUE, v |-> a]

None == [defined |-> FALSE, v |-> <<>>]

SeqsUpTo(S, n) == UNION {[1..k -> S] : k \in 0..n}

\* types.ts Team, reduced to the field the program reads
Team(n) == [name |-> n]

\* types.ts Match plus the matchday the service sends
Fixture(md, h, a) == [matchday |-> md, homeTeam |-> Team(h), awayTeam |-> Team(a)]

Fixtures ==
    {Fixture(11, <<"A", "r", "s">>, <<"C", "h", "e">>),
     Fixture(11, <<"L">>, <<"M", "C">>),
     Fixture(12, <<"A", "r", "s">>, <<"M", "C">>),
     Fixture(12, <<"L">>, <<"C", "h", "e">>)}

\* types.ts StandingEntry
Entry(pos, n, mp, w, d, l, pts, gf, ga, gd, fm) ==
    [position |-> pos, team |-> Team(n), playedGames |-> mp, won |-> w,
     draw |-> d, lost |-> l, points |-> pts, goalsFor |-> gf,
     goalsAgainst |-> ga, goalDifference |-> gd, form |-> fm]

\* rows of a league table; the service is not checked for consistency, so
\* points need not be 3*won + draw
StandingEntries ==
    {Entry(1, <<"A", "r", "s">>, 10, 8, 2, 0, 25, 20, 5, 15, "WWWWD"),
     Entry(1, <<"A", "r", "s">>, 10, 8, 2, 0, 22, 20, 5, 15, "WWWWD"),
     Entry(2, <<"L">>, 9, 6, 1, 3, 21, 18, 7, 11, "WDWLW"),
     Entry(3, <<"M", "C">>, 11, 4, 5, 2, 17, 12, 13, 14, "DDLWD")}

\* the rows used for the tables of a whole run
RunEntries ==
    {Entry(1, <<"A", "r", "s">>, 10, 8, 2, 0, 25, 20, 5, 15, "WWWWD"),
     Entry(2, <<"L">>, 9, 6, 1, 3, 21, 18, 7, 11, "WDWLW")}

----------------------------------------------------------------------------
(* Responses of the two services *)

\* GET /competitions/PL/standings
StandingsData(has, sts) == [ok |-> TRUE, hasStandings |-> has, standings |-> sts]

TableOf(t) == [hasTable |-> TRUE, table |-> t]

NoTable == [hasTable |-> FALSE, table |-> <<>>]

StandingsFailure == [ok |-> FALSE, hasStandings |-> FALSE, standings |-> <<>>]

StandingsResponses ==
    {StandingsFailure, StandingsData(FALSE, <<>>), StandingsData(TRUE, <<>>),
     StandingsData(TRUE, <<NoTable>>)}
    \cup {StandingsData(TRUE, <<TableOf(t)>>) : t \in SeqsUpTo(RunEntries, MaxStandings)}
    \cup {StandingsData(TRUE, <<TableOf(<<e>>), TableOf(<<>>)>>) : e \in RunEntries}

\* GET /competitions/PL/matches
MatchesData(has, ms) == [ok |-> TRUE, hasMatches |-> has, matches |-> ms]

FixturesFailure == [ok |-> FALSE, hasMatches |-> FALSE, matches |-> <<>>]

FixturesResponses ==
    {FixturesFailure, MatchesData(FALSE, <<>>)}
    \cup {MatchesData(TRUE, ms) : ms \in SeqsUpTo(Fixtures, MaxFixtures)}

\* POST ...:generateContent
ValidText == "{\"predictions\":[]}"

WrongSchemaText == "{\"matches\":[]}"

NotJsonText == "Here are my predictions"

Texts == {ValidText, WrongSchemaText, NotJsonText}

Part(t) == [hasText |-> t # Undefined, text |-> t]

Candidate(hasC, hasP, ps) == [hasContent |-> hasC, hasParts |-> hasP, parts |-> ps]

AIData(has, cs) == [ok |-> TRUE, hasCandidates |-> has, candidates |-> cs]

AIFailure == [ok |-> FALSE, hasCandidates |-> FALSE, candidates |-> <<>>]

AIResponses ==
    {AIFailure,
     AIData(FALSE, <<>>),
     AIData(TRUE, <<>>),
     AIData(TRUE, <<Candidate(FALSE, FALSE, <<>>)>>),
     AIData(TRUE, <<Candidate(TRUE, FALSE, <<>>)>>),
     AIData(TRUE, <<Candidate(TRUE, TRUE, <<>>)>>),
     AIData(TRUE, <<Candidate(TRUE, TRUE, <<Part(Undefined)>>)>>)}
    \cup {AIData(TRUE, <<Candidate(TRUE, TRUE, <<Part(t)>>)>>) : t \in Texts}

\* the value of a response variable before the response arrives
NoResponse == [ok |-> FALSE, pending |-> TRUE]

----------------------------------------------------------------------------
(* Functions of index.ts *)

Threw(e) == [threw |-> TRUE, error |-> e]

\* variant: the loop checks the first variable only
requiredEnvVars_FirstOnly == <<"FOOTBALL_API_KEY">>

requiredEnvVars == <<"FOOTBALL_API_KEY", "GOOGLE_API_KEY">>

\* !process.env[envVar]: undefined and the empty string are both falsy
Falsy(s) == s \in {Undefined, ""}

\* the variables the start-up loop finds missing, in the loop's order
MissingEnvVars(e) ==
    SelectSeq(requiredEnvVars, LAMBDA name : Falsy(e[name]))

getStandings(resp) ==
    IF ~resp.ok THEN Threw("AxiosError")
    ELSE IF ~resp.hasStandings \/ Len(resp.standings) = 0 THEN Threw("TypeError")
    ELSE [threw |-> FALSE,
          value |-> IF resp.standings[1].hasTable
                    THEN Some(resp.standings[1].table) ELSE None]

\* variant: an empty result is treated as an error
getFixtures_ThrowOnEmpty(resp) ==
    IF ~resp.ok THEN Threw("AxiosError")
    ELSE IF ~resp.hasMatches \/ Len(resp.matches) = 0 THEN Threw("NoFixtures")
    ELSE [threw |-> FALSE, warned |-> FALSE, value |-> resp.matches]

getFixtures(resp) ==
    IF ~resp.ok THEN Threw("AxiosError")
    ELSE [threw |-> FALSE,
          warned |-> ~resp.hasMatches \/ Len(resp.matches) = 0,
          value |-> IF resp.hasMatches THEN resp.matches ELSE <<>>]

\* variant: P is recomputed from the win and draw counts
formatStandingsTable_RecomputedPoints(sts) ==
    [i \in 1..Len(sts) |->
        [position |-> sts[i].position,
         team |-> sts[i].team.name,
         MP |-> sts[i].playedGames,
         W |-> sts[i].won,
         D |-> sts[i].draw,
         L |-> sts[i].lost,
         F |-> sts[i].goalsFor,
         A |-> sts[i].goalsAgainst,
         GD |-> sts[i].goalDifference,
         P |-> 3 * sts[i].won + sts[i].draw,
         form |-> sts[i].form]]

formatStandingsTable(sts) ==
    [i \in 1..Len(sts) |->
        [position |-> sts[i].position,
         team |-> sts[i].team.name,
         MP |-> sts[i].playedGames,
         W |-> sts[i].won,
         D |-> sts[i].draw,
         L |-> sts[i].lost,
         F |-> sts[i].goalsFor,
         A |-> sts[i].goalsAgainst,
         GD |-> sts[i].goalDifference,
         P |-> sts[i].points,
         form |-> sts[i].form]]

RECURSIVE Join(_, _)
\* Array.prototype.join
Join(lines, sep) ==
    IF Len(lines) = 0 THEN <<>>
    ELSE IF Len(lines) = 1 THEN lines[1]
    ELSE lines[1] \o sep \o Join(Tail(lines), sep)

\* variant: every fixture of the window is rendered
formatFixtures_NoFilter(fx) ==
    IF ~fx.defined \/ Len(fx.v) = 0 THEN <<>>
    ELSE Join([i \in 1..Len(fx.v) |->
                  fx.v[i].homeTeam.name \o <<" ", "-", " ">>
                      \o fx.v[i].awayTeam.name], <<"\n">>)

\* the argument is a possibly undefined array
formatFixtures(fx) ==
    IF ~fx.defined \/ Len(fx.v) = 0 THEN <<>>
    ELSE LET matchday == fx.v[1].matchday
             kept == SelectSeq(fx.v, LAMBDA match : match.matchday = matchday)
             lines == [i \in 1..Len(kept) |->
                          kept[i].homeTeam.name \o <<" ", "-", " ">>
                              \o kept[i].awayTeam.name]
         IN  Join(lines, <<"\n">>)

\* the template with its two embedded blocks; the fixed text is constant
generatePrompt(fs, fx) == [standings |-> fs, fixtures |-> fx]

getPredictions(resp) ==
    IF ~resp.ok THEN Threw("AxiosError")
    ELSE IF ~resp.hasCandidates THEN Threw("InvalidResponseFormat")
    ELSE IF Len(resp.candidates) = 0 THEN Threw("TypeError")
    ELSE LET c == resp.candidates[1] IN
         IF ~c.hasContent THEN Threw("InvalidResponseFormat")
         ELSE IF ~c.hasParts \/ Len(c.parts) = 0 THEN Threw("TypeError")
         ELSE [threw |-> FALSE, value |-> c.parts[1].text]

----------------------------------------------------------------------------
(* One run of the script *)

Requests == {"standings", "fixtures", "ai"}

EnvValues == {Undefined, "", "key"}

\* the output directory and file before the run: no directory, an empty
\* directory, an empty file, a file left by an earlier run
InitialDisk ==
    {[dir |-> FALSE, file |-> Absent], [dir |-> TRUE, file |-> Absent],
     [dir |-> TRUE, file |-> ""], [dir |-> TRUE, file |-> "old predictions"]}

FmtIdle ==
    /\ fmtArgFixtures = None
    /\ fmtArgStandings = <<>>
    /\ fmtRetFixtures = <<>>
    /\ fmtRetStandings = <<>>
    /\ fmtCalled = {}

RunInit ==
    /\ env \in [{"FOOTBALL_API_KEY", "GOOGLE_API_KEY"} -> EnvValues]
    /\ pc = "load"
    /\ inflight = {}
    /\ issued = [r \in Requests |-> 0]
    /\ standingsResp = NoResponse
    /\ fixturesResp = NoResponse
    /\ aiResp = NoResponse
    /\ standings = None
    /\ fixtures = <<>>
    /\ warned = FALSE
    /\ formattedStandings = <<>>
    /\ formattedFixtures = <<>>
    /\ prompt = [standings |-> <<>>, fixtures |-> <<>>]
    /\ predictions = Undefined
    /\ \E d \in InitialDisk : dirExists = d.dir /\ file = d.file /\ disk0 = d
    /\ error = NoError
    /\ failedAt = NoError
    /\ exitCode = NotExited

Init == RunInit /\ FmtIdle

\* an error that reaches the end of the script, or main's catch and its
\* process.exit(1): the process ends with exit code 1
Fatal(e, where) ==
    /\ pc' = "exited"
    /\ exitCode' = 1
    /\ error' = e
    /\ failedAt' = where
    /\ inflight' = {}

diskVars == <<dirExists, file, disk0>>

dataVars == <<standings, fixtures, warned, formattedStandings,
              formattedFixtures, prompt, predictions>>

respVars == <<standingsResp, fixturesResp, aiResp>>

\* the module body: dotenv.config(), the loop over requiredEnvVars, main()
LoadModule ==
    /\ pc = "load"
    /\ IF Len(MissingEnvVars(env)) > 0
       THEN Fatal("MissingEnv:" \o MissingEnvVars(env)[1], "load")
       ELSE /\ pc' = "getStandings"
            /\ UNCHANGED <<exitCode, error, failedAt, inflight>>
    /\ UNCHANGED <<env, issued, respVars, dataVars, diskVars, fmtVars>>

\* a function of main sends its request and main suspends on it
Issue(at, req, next) ==
    /\ pc = at
    /\ inflight' = inflight \cup {req}
    /\ issued' = [issued EXCEPT ![req] = @ + 1]
    /\ pc' = next
    /\ UNCHANGED <<env, respVars, dataVars, diskVars, error, failedAt,
                   exitCode, fmtVars>>

IssueStandings == Issue("getStandings", "standings", "awaitStandings")

StandingsResponse ==
    /\ pc = "awaitStandings"
    /\ \E resp \in StandingsResponses :
        LET r == getStandings(resp) IN
        /\ standingsResp' = resp
        /\ IF r.threw
           THEN Fatal(r.error, "getStandings") /\ UNCHANGED standings
           ELSE /\ standings' = r.value
                /\ inflight' = inflight \ {"standings"}
                /\ pc' = "getFixtures"
                /\ UNCHANGED <<exitCode, error, failedAt>>
    /\ UNCHANGED <<env, issued, fixturesResp, aiResp, fixtures, warned,
                   formattedStandings, formattedFixtures, prompt,
                   predictions, diskVars, fmtVars>>

\* variant: the fixtures request is sent while the standings request is
\* still in flight
IssueFixtures_Early ==
    /\ issued["fixtures"] = 0
    /\ Issue("awaitStandings", "fixtures", "awaitStandings")

IssueFixtures == Issue("getFixtures", "fixtures", "awaitFixtures")

FixturesResponse ==
    /\ pc = "awaitFixtures"
    /\ \E resp \in FixturesResponses :
        LET r == getFixtures(resp) IN
        /\ fixturesResp' = resp
        /\ IF r.threw
           THEN Fatal(r.error, "getFixtures") /\ UNCHANGED <<fixtures, warned>>
           ELSE /\ fixtures' = r.value
                /\ warned' = r.warned
                /\ inflight' = inflight \ {"fixtures"}
                /\ pc' = "format"
                /\ UNCHANGED <<exitCode, error, failedAt>>
    /\ UNCHANGED <<env, issued, standingsResp, aiResp, standings,
                   formattedStandings, formattedFixtures, prompt,
                   predictions, diskVars, fmtVars>>

\* the synchronous block of main: formatStandingsTable, formatFixtures,
\* generatePrompt; standings.map throws when the table is undefined
FormatData ==
    /\ pc = "format"
    /\ IF ~standings.defined
       THEN /\ Fatal("TypeError", "formatStandingsTable")
            /\ UNCHANGED <<formattedStandings, formattedFixtures, prompt>>
       ELSE /\ formattedStandings' = formatStandingsTable(standings.v)
            /\ formattedFixtures' = formatFixtures(Some(fixtures))
            /\ prompt' = generatePrompt(formatStandingsTable(standings.v),
                                        formatFixtures(Some(fixtures)))
            /\ pc' = "getPredictions"
            /\ UNCHANGED <<exitCode, error, failedAt, inflight>>
    /\ UNCHANGED <<env, issued, respVars, standings, fixtures, warned,
                   predictions, diskVars, fmtVars>>

IssueAI == Issue("getPredictions", "ai", "awaitPredictions")

AIResponse ==
    /\ pc = "awaitPredictions"
    /\ \E resp \in AIResponses :
        LET r == getPredictions(resp) IN
        /\ aiResp' = resp
        /\ IF r.threw
           THEN Fatal(r.error, "getPredictions") /\ UNCHANGED predictions
           ELSE /\ predictions' = r.value
                /\ inflight' = inflight \ {"ai"}
                /\ pc' = "mkdir"
                /\ UNCHANGED <<exitCode, error, failedAt>>
    /\ UNCHANGED <<env, issued, standingsResp, fixturesResp, standings,
                   fixtures, warned, formattedStandings, formattedFixtures,
                   prompt, diskVars, fmtVars>>

\* if (!fs.existsSync('./output')) fs.mkdirSync('./output'); the file
\* system may refuse
EnsureOutputDir ==
    /\ pc = "mkdir"
    /\ \E fsOk \in BOOLEAN :
        IF dirExists
        THEN /\ fsOk
             /\ pc' = "truncate"
             /\ UNCHANGED <<dirExists, exitCode, error, failedAt, inflight>>
        ELSE IF fsOk
        THEN /\ dirExists' = TRUE
             /\ pc' = "truncate"
             /\ UNCHANGED <<exitCode, error, failedAt, inflight>>
        ELSE Fatal("FsError", "mkdirSync") /\ UNCHANGED dirExists
    /\ UNCHANGED <<env, issued, respVars, dataVars, file, disk0, fmtVars>>

\* fs.writeFileSync(outputPath, "")
TruncateFile ==
    /\ pc = "truncate"
    /\ \E fsOk \in BOOLEAN :
        IF fsOk
        THEN /\ file' = ""
             /\ pc' = "write"
             /\ UNCHANGED <<exitCode, error, failedAt, inflight>>
        ELSE Fatal("FsError", "writeFileSync") /\ UNCHANGED file
    /\ UNCHANGED <<env, issued, respVars, dataVars, dirExists, disk0, fmtVars>>

\* variant: the text is serialized as a JSON string before it is written
Written_Stringified(p) == "\"" \o p \o "\""

\* what fs.writeFileSync(outputPath, predictions) puts in the file
Written(p) == p

\* fs.writeFileSync(outputPath, predictions): data that is not a string is
\* rejected with a TypeError before the file is opened
WriteFile ==
    /\ pc = "write"
    /\ \E fsOk \in BOOLEAN :
        IF predictions = Undefined
        THEN /\ fsOk
             /\ Fatal("TypeError", "writeFileSync")
             /\ UNCHANGED file
        ELSE IF fsOk
        THEN /\ file' = Written(predictions)
             /\ pc' = "exited"
             /\ exitCode' = 0
             /\ UNCHANGED <<error, failedAt, inflight>>
        ELSE Fatal("FsError", "writeFileSync") /\ UNCHANGED file
    /\ UNCHANGED <<env, issued, respVars, dataVars, dirExists, disk0, fmtVars>>

Next ==
    \/ LoadModule
    \/ IssueStandings
    \/ StandingsResponse
    \/ IssueFixtures
    \/ FixturesResponse
    \/ FormatData
    \/ IssueAI
    \/ AIResponse
    \/ EnsureOutputDir
    \/ TruncateFile
    \/ WriteFile

Spec == Init /\ [][Next]_vars

----------------------------------------------------------------------------
(* Direct calls of the two formatters *)

FmtInit ==
    /\ env = [n \in {"FOOTBALL_API_KEY", "GOOGLE_API_KEY"} |-> "key"]
    /\ disk0 = [dir |-> FALSE, file |-> Absent]
    /\ RunInit
    /\ fmtArgFixtures \in {None} \cup {Some(f) : f \in SeqsUpTo(Fixtures, MaxFixtures)}
    /\ fmtArgStandings \in SeqsUpTo(StandingEntries, MaxStandings)
    /\ fmtRetFixtures = <<>>
    /\ fmtRetStandings = <<>>
    /\ fmtCalled = {}

CallFormatFixtures ==
    /\ "formatFixtures" \notin fmtCalled
    /\ fmtRetFixtures' = formatFixtures(fmtArgFixtures)
    /\ fmtCalled' = fmtCalled \cup {"formatFixtures"}
    /\ UNCHANGED <<runVars, fmtArgFixtures, fmtArgStandings, fmtRetStandings>>

CallFormatStandingsTable ==
    /\ "formatStandingsTable" \notin fmtCalled
    /\ fmtRetStandings' = formatStandingsTable(fmtArgStandings)
    /\ fmtCalled' = fmtCalled \cup {"formatStandingsTable"}
    /\ UNCHANGED <<runVars, fmtArgFixtures, fmtArgStandings, fmtRetFixtures>>

FmtNext == CallFormatFixtures \/ CallFormatStandingsTable

SpecFormat == FmtInit /\ [][FmtNext]_vars

----------------------------------------------------------------------------
(* Notions the properties are stated with *)

Received(resp) == resp # NoResponse

\* the response has the candidate/content structure the program expects:
\* candidates[0].content.parts[0].text
WellFormed(resp) ==
    /\ resp.hasCandidates
    /\ Len(resp.candidates) > 0
    /\ resp.candidates[1].hasContent
    /\ resp.candidates[1].hasParts
    /\ Len(resp.candidates[1].parts) > 0
    /\ resp.candidates[1].parts[1].hasText

GeneratedText(resp) == resp.candidates[1].parts[1].text

IsJson(t) == t \in {ValidText, WrongSchemaText}

\* the text parses into a PredictionResponse
MatchesSchema(t) == t = ValidText

DiskUntouched == dirExists = disk0.dir /\ file = disk0.file

RECURSIVE SplitOn(_, _)
\* String.prototype.split on a one-character separator
SplitOn(s, sep) ==
    IF \A i \in 1..Len(s) : s[i] # sep THEN <<s>>
    ELSE LET i == CHOOSE k \in 1..Len(s) :
                      s[k] = sep /\ \A j \in 1..(k - 1) : s[j] # sep
         IN  <<SubSeq(s, 1, i - 1)>> \o SplitOn(SubSeq(s, i + 1, Len(s)), sep)

RECURSIVE LinesOfMatchday(_, _)
\* one "Home - Away" line for each fixture of matchday md, in order
LinesOfMatchday(f, md) ==
    IF Len(f) = 0 THEN <<>>
    ELSE (IF Head(f).matchday = md
          THEN <<Head(f).homeTeam.name \o <<" ", "-", " ">> \o Head(f).awayTeam.name>>
          ELSE <<>>) \o LinesOfMatchday(Tail(f), md)

----------------------------------------------------------------------------
(* Properties *)

\* C2: if a required environment variable is absent (or empty) at startup,
\* the process ends with exit code 1 in its first step: no request has been
\* issued and the output directory and file are as they were.
C2_MissingSecretFailsFast ==
    (\E n \in DOMAIN env : Falsy(env[n])) =>
        /\ \A r \in Requests : issued[r] = 0
        /\ inflight = {}
        /\ DiskUntouched
        /\ pc \in {"load", "exited"}
        /\ pc = "exited" => exitCode = 1 /\ failedAt = "load"

C2_Witness ==
    /\ env["FOOTBALL_API_KEY"] = "key"
    /\ env["GOOGLE_API_KEY"] = Undefined
    /\ pc = "exited"
    /\ exitCode = 1
    /\ error = "MissingEnv:GOOGLE_API_KEY"

\* C5: formatFixtures returns the empty string for an absent or empty
\* sequence; otherwise its output, split on newlines, is the "Home - Away"
\* lines of exactly the fixtures that share the first fixture's matchday, in
\* input order, so there are as many lines as such fixtures.
C5_FormatFixturesFiltersFirstMatchday ==
    "formatFixtures" \in fmtCalled =>
        IF ~fmtArgFixtures.defined \/ Len(fmtArgFixtures.v) = 0
        THEN fmtRetFixtures = <<>>
        ELSE LET f == fmtArgFixtures.v
                 out == SplitOn(fmtRetFixtures, "\n")
             IN  /\ out = LinesOfMatchday(f, f[1].matchday)
                 /\ Len(out) = Cardinality({i \in 1..Len(f) :
                                               f[i].matchday = f[1].matchday})

\* two matchday-11 fixtures followed by a matchday-12 fixture give two lines
C5_Witness ==
    /\ "formatFixtures" \in fmtCalled
    /\ fmtArgFixtures =
           Some(<<Fixture(11, <<"A", "r", "s">>, <<"C", "h", "e">>),
                  Fixture(11, <<"L">>, <<"M", "C">>),
                  Fixture(12, <<"A", "r", "s">>, <<"M", "C">>)>>)
    /\ fmtRetFixtures =
           <<"A", "r", "s", " ", "-", " ", "C", "h", "e", "\n",
             "L", " ", "-", " ", "M", "C">>

\* C6: formatStandingsTable returns a sequence of the same length whose
\* i-th element is the field projection of the i-th input; P is the input's
\* points.
C6_FormatStandingsTableProjects ==
    "formatStandingsTable" \in fmtCalled =>
        /\ Len(fmtRetStandings) = Len(fmtArgStandings)
        /\ \A i \in 1..Len(fmtArgStandings) :
            LET in == fmtArgStandings[i]
                out == fmtRetStandings[i]
            IN  /\ out.P = in.points
                /\ out.position = in.position
                /\ out.team = in.team.name
                /\ out.MP = in.playedGames
                /\ out.W = in.won
                /\ out.D = in.draw
                /\ out.L = in.lost
                /\ out.F = in.goalsFor
                /\ out.A = in.goalsAgainst
                /\ out.GD = in.goalDifference
                /\ out.form = in.form

\* a table of two rows whose first row has points that are not 3*won + draw
C6_Witness ==
    /\ "formatStandingsTable" \in fmtCalled
    /\ Len(fmtArgStandings) = 2
    /\ fmtArgStandings[1].points # 3 * fmtArgStandings[1].won + fmtArgStandings[1].draw
    /\ fmtArgStandings[1] # fmtArgStandings[2]
    /\ fmtRetStandings[1].P = 22
    /\ fmtRetStandings[2].team = <<"M", "C">>

EmptyFixturesReceived ==
    /\ Received(fixturesResp)
    /\ fixturesResp.ok
    /\ ~fixturesResp.hasMatches \/ Len(fixturesResp.matches) = 0

\* C8: when the fixtures response has no matches field or an empty list,
\* getFixtures returns the empty sequence and does not throw, and the run
\* goes on: formatFixtures yields the empty string, the prompt is built with
\* it and the AI call is issued.  The only way the run stops before the AI
\* call is formatStandingsTable throwing on a standings response without a
\* table, which does not depend on the fixtures.
C8_EmptyFixturesContinue ==
    EmptyFixturesReceived =>
        /\ fixtures = <<>>
        /\ warned
        /\ failedAt # "getFixtures"
        /\ pc # "awaitFixtures"
        /\ pc # "format" =>
              \/ failedAt = "formatStandingsTable" /\ ~standings.defined
              \/ /\ formattedFixtures = <<>>
                 /\ prompt = generatePrompt(formattedStandings, <<>>)
                 /\ pc = "getPredictions" \/ issued["ai"] = 1

C8_Witness ==
    /\ Received(fixturesResp)
    /\ fixturesResp.ok
    /\ ~fixturesResp.hasMatches
    /\ Len(formattedStandings) = 2
    /\ issued["ai"] = 1
    /\ pc = "exited"
    /\ exitCode = 0

Succeeded(resp, result) == Received(resp) /\ ~result.threw

\* C9: at most one request is in flight, each request is issued at most
\* once, the fixtures request is issued only after getStandings returned,
\* the AI request only after getFixtures returned and the prompt was built,
\* and the disk is touched only after getPredictions returned.
C9_SequentialSingleShot ==
    /\ Cardinality(inflight) <= 1
    /\ \A r \in Requests : issued[r] <= 1
    /\ issued["fixtures"] = 1 =>
          /\ issued["standings"] = 1
          /\ "standings" \notin inflight
          /\ Succeeded(standingsResp, getStandings(standingsResp))
    /\ issued["ai"] = 1 =>
          /\ issued["fixtures"] = 1
          /\ "fixtures" \notin inflight
          /\ Succeeded(fixturesResp, getFixtures(fixturesResp))
          /\ standings.defined
          /\ prompt = generatePrompt(formatStandingsTable(standings.v),
                                     formatFixtures(Some(fixtures)))
    /\ ~DiskUntouched \/ pc \in {"mkdir", "truncate", "write"} =>
          /\ issued["ai"] = 1
          /\ inflight = {}
          /\ Succeeded(aiResp, getPredictions(aiResp))
    /\ pc = "exited" => inflight = {}

C9_Witness ==
    /\ pc = "exited"
    /\ exitCode = 0
    /\ \A r \in Requests : issued[r] = 1
    /\ Len(fixtures) = 2
    /\ file = ValidText

C10_TruncatedState ==
    /\ pc = "write"
    /\ disk0.file = "old predictions"
    /\ file = ""

----------------------------------------------------------------------------
(* Statements the program does not satisfy *)

\* C1: the file has been written (or truncated) only if the AI call returned
\* a well-formed response whose text parses into a PredictionResponse.
C1_WrittenOnlyAfterParsed ==
    file # disk0.file =>
        /\ Received(aiResp)
        /\ aiResp.ok
        /\ WellFormed(aiResp)
        /\ MatchesSchema(GeneratedText(aiResp))

\* C3: when the response is well formed but its text is not JSON, or is JSON
\* of another shape, getPredictions throws a schema error, the process ends
\* with a non-zero exit code and the disk is untouched.
C3_UnparsableTextIsFatal ==
    (Received(aiResp) /\ aiResp.ok /\ WellFormed(aiResp)
        /\ (~IsJson(GeneratedText(aiResp))
              \/ ~MatchesSchema(GeneratedText(aiResp)))) =>
        /\ pc = "exited"
        /\ exitCode # 0
        /\ failedAt = "getPredictions"
        /\ error = "SchemaError"
        /\ DiskUntouched

\* C4: for every response without the expected structure getPredictions
\* throws the 'Invalid response format' error, and nothing else.
C4_MalformedIsInvalidResponseFormat ==
    (Received(aiResp) /\ aiResp.ok /\ ~WellFormed(aiResp)) =>
        /\ pc = "exited"
        /\ failedAt = "getPredictions"
        /\ error = "InvalidResponseFormat"

EveryStepSucceeded ==
    /\ Len(MissingEnvVars(env)) = 0
    /\ Succeeded(standingsResp, getStandings(standingsResp))
    /\ Succeeded(fixturesResp, getFixtures(fixturesResp))
    /\ standings.defined
    /\ Received(aiResp) /\ aiResp.ok /\ WellFormed(aiResp)
    /\ MatchesSchema(GeneratedText(aiResp))
    /\ dirExists /\ file = GeneratedText(aiResp)

\* C7: the process ends with exit code 0 exactly when every step succeeded
\* (a malformed AI response counts as a failure), and after a failed AI step
\* the disk is untouched.
C7_ExitCodeTellsSuccess ==
    pc = "exited" =>
        /\ exitCode = 0 <=> EveryStepSucceeded
        /\ failedAt \in {"load", "getStandings", "getFixtures",
                          "formatStandingsTable", "getPredictions"}
              => DiskUntouched
        /\ (Received(aiResp) /\ aiResp.ok
               /\ ~(WellFormed(aiResp) /\ MatchesSchema(GeneratedText(aiResp))))
              => DiskUntouched

====
